---- MODULE Spec2Model ----
(***************************************************************************)
(* Model of fly, a database schema-migration runner (src/fly.go).          *)
(*                                                                         *)
(* State: the migration directories on disk and the files that hold text,  *)
(* the ledger table `migration` of the database, the schema effects        *)
(* committed to the database, and the observable record of the last        *)
(* command line invocation.                                                *)
(*                                                                         *)
(* Spec         one action per command (init, new, up, down), each run to  *)
(*              its exit, and the author who writes script files           *)
(* SpecOrder    init, up and down with the history of the executions       *)
(* SpecScaffold new alone, from empty directories                          *)
(* SpecNew      new and somebody who writes files of any name              *)
(* SpecUpSteps  one up, statement by statement                             *)
(* SpecUps      two ups side by side, statement by statement               *)
(* SpecDowns    two downs side by side, statement by statement             *)
(***************************************************************************)
EXTENDS Integers, Sequences, FiniteSets

VARIABLES
    fs,           \* directory name -> set of file names (strings as tuples of characters)
    tableExists,  \* the table `migration` exists in the database
    ledger,       \* committed rows of the table: records [id, applied]
    schema,       \* ids whose up-script effects are committed and not reverted
    clock,        \* the timestamp of the last transaction that inserted rows
    last,         \* the last invocation: command, flags, error, scripts run, lines printed
    written,      \* the files that hold text: pairs <<directory, file name>>
    executed,     \* history: the applied migrations in the order their up-scripts were
                  \* executed, each with the number of the run that executed it
    proc          \* the invocations that run side by side, statement by statement:
                  \* where each one stands and what its transaction has done

vars == <<fs, tableExists, ledger, schema, clock, last, written, executed, proc>>

----------------------------------------------------------------------------
(* Bounds of the model. *)

\* largest timestamp the database clock reaches
MaxClock == 1
\* largest count given to `down`
MaxN == 2
\* largest number of files on disk, the directories taken together
MaxFiles == 5

----------------------------------------------------------------------------
(* Strings: tuples of one-character strings, compared bytewise as Go does. *)

Digits == <<"0", "1", "2", "3", "4", "5", "6", "7", "8", "9">>
Letters == <<"a", "b", "c", "d", "e", "f", "g", "h", "i", "j", "k", "l", "m",
             "n", "o", "p", "q", "r", "s", "t", "u", "v", "w", "x", "y", "z">>

Chars == {" ", "+", "-", ".", "_"} \cup {Digits[i] : i \in 1..Len(Digits)}
         \cup {Letters[i] : i \in 1..Len(Letters)}

IndexOf(seq, c) == CHOOSE i \in 1..Len(seq) : seq[i] = c

\* the byte of each character (ASCII)
Bytes ==
    [c \in Chars |->
        CASE c = " " -> 32
          [] c = "+" -> 43
          [] c = "-" -> 45
          [] c = "." -> 46
          [] c = "_" -> 95
          [] \E i \in 1..Len(Digits) : Digits[i] = c -> 47 + IndexOf(Digits, c)
          [] OTHER -> 96 + IndexOf(Letters, c)]

Byte(c) == Bytes[c]

Min(a, b) == IF a < b THEN a ELSE b

RECURSIVE LessFrom(_, _, _)
\* a[i..] < b[i..], the bytes before i being equal
LessFrom(a, b, i) ==
    IF i > Len(b) THEN FALSE
    ELSE IF i > Len(a) THEN TRUE
    ELSE IF a[i] # b[i] THEN Byte(a[i]) < Byte(b[i])
    ELSE LessFrom(a, b, i + 1)

\* a < b on Go strings: bytewise lexicographic
StringLess(a, b) == LessFrom(a, b, 1)

\* strings.CutSuffix(s, suffix): found
HasSuffix(s, suffix) ==
    /\ Len(s) >= Len(suffix)
    /\ SubSeq(s, Len(s) - Len(suffix) + 1, Len(s)) = suffix

\* strings.CutSuffix(s, suffix): the part before the suffix
TrimSuffix(s, suffix) == SubSeq(s, 1, Len(s) - Len(suffix))

UpSuffix == <<".", "u", "p", ".", "s", "q", "l">>
DownSuffix == <<".", "d", "o", "w", "n", ".", "s", "q", "l">>

----------------------------------------------------------------------------
(* The world outside the program: directories and the ids people author.   *)

\* the directory listDirMigrations reads
DefaultDir == "migrations"
\* another directory, given with --sourcedir
OtherDir == "db"
Dirs == {DefaultDir, OtherDir}

\* authored migration ids; their string order is not their serial order
Id1 == <<"0", "0", "0", "2", "_", "a">>
Id2 == <<"1", "0", "_", "b">>
Ids == {Id1, Id2}
\* ids authored in the other directory
OtherIds == {Id1}
\* ids whose down-script may be written later than their up-script, or never
LateDownIds == {Id1}

NoId == <<>>

\* the script files of an authored migration
UpFile(id) == id \o UpSuffix
DownFile(id) == id \o DownSuffix

Range(seq) == {seq[i] : i \in 1..Len(seq)}

RECURSIVE InsertString(_, _, _)
\* x put into the ascending sequence sorted, looking from position i
InsertString(sorted, x, i) ==
    IF i > Len(sorted) THEN Append(sorted, x)
    ELSE IF StringLess(x, sorted[i])
    THEN SubSeq(sorted, 1, i - 1) \o <<x>> \o SubSeq(sorted, i, Len(sorted))
    ELSE InsertString(sorted, x, i + 1)

RECURSIVE SortFrom(_, _, _)
SortFrom(seq, i, sorted) ==
    IF i > Len(seq) THEN sorted
    ELSE SortFrom(seq, i + 1, InsertString(sorted, seq[i], 1))

\* sort.Strings(seq): ascending, bytewise
SortStrings(seq) == SortFrom(seq, 1, <<>>)

RECURSIVE Listing(_)
\* the elements of a set, one after the other
Listing(S) ==
    IF S = {} THEN <<>>
    ELSE LET x == CHOOSE e \in S : TRUE IN <<x>> \o Listing(S \ {x})

\* variant: the entries of the directory sorted by file name, descending
ReadDirDescending(dir) ==
    LET entries == SortStrings(Listing(fs[dir]))
    IN [i \in 1..Len(entries) |-> entries[Len(entries) + 1 - i]]

\* os.ReadDir(dir): the entries of the directory sorted by file name
ReadDir(dir) == SortStrings(Listing(fs[dir]))

----------------------------------------------------------------------------
(* Faults of the world an invocation can meet: at most one ends it.        *)

NoFault == [op |-> "none", at |-> NoId]

\* the faults an invocation that handles the migrations ids can meet
Faults(ids) ==
    {NoFault, [op |-> "begin", at |-> NoId], [op |-> "commit", at |-> NoId]}
    \cup [op : {"exec", "register", "unregister"}, at : ids]

----------------------------------------------------------------------------
(* The database: committed state and the state seen inside a transaction.  *)

\* db.Begin(): the transaction starts from the committed state; `now` is
\* current_timestamp, which PostgreSQL fixes at the start of the transaction
Begin(now, fault) ==
    [table |-> tableExists, ledger |-> ledger, schema |-> schema,
     txLedger |-> ledger, txSchema |-> schema, now |-> now,
     err |-> IF fault.op = "begin" THEN "begin" ELSE "",
     n |-> 0, ran |-> <<>>, out |-> <<>>, idx |-> <<>>]

Fail(st, e) == [st EXCEPT !.err = e]

\* a value computed once and then used
With(value, body(_)) == CHOOSE r \in {body(v) : v \in {value}} : TRUE

\* `if err != nil { return err }`: the next statement runs only after a success
Then(st, next(_)) ==
    CHOOSE r \in {IF s.err # "" THEN s ELSE next(s) : s \in {st}} : TRUE

\* tx.Commit(): the state of the transaction becomes the committed state
Commit(st, fault) ==
    IF fault.op = "commit" THEN Fail(st, "commit")
    ELSE [st EXCEPT !.ledger = st.txLedger, !.schema = st.txSchema]

LedgerIds(rows) == {r.id : r \in rows}

\* variant: the check finds no row
isMigrationAppliedNever(st, id) == FALSE

\* isMigrationApplied(db, id): SELECT 1 FROM migration WHERE id = $1, on db
isMigrationApplied(st, id) == id \in LedgerIds(st.ledger)

\* listDirMigrations(): ids of the *.up.sql entries of "migrations", sorted
CutUp(entries) ==
    [i \in 1..Len(entries) |-> TrimSuffix(entries[i], UpSuffix)]

listDirMigrations ==
    SortStrings(CutUp(SelectSeq(ReadDir(DefaultDir), LAMBDA e : HasSuffix(e, UpSuffix))))

\* tx.Exec(script): an up-script leaves its effect, a down-script removes it
Exec(st, name) ==
    IF HasSuffix(name, UpSuffix)
    THEN [st EXCEPT !.txSchema = @ \cup {TrimSuffix(name, UpSuffix)}]
    ELSE IF HasSuffix(name, DownSuffix)
    THEN [st EXCEPT !.txSchema = @ \ {TrimSuffix(name, DownSuffix)}]
    ELSE st

\* variant: the script is executed on db, outside the transaction
runScriptOnDb(st, filename, fault) ==
    IF filename[2] \notin fs[filename[1]] THEN Fail(st, "read")
    ELSE IF fault.op = "exec" /\ UpFile(fault.at) = filename[2] THEN Fail(st, "exec")
    ELSE IF fault.op = "exec" /\ DownFile(fault.at) = filename[2] THEN Fail(st, "exec")
    ELSE [Exec(st, filename[2]) EXCEPT !.ran = Append(@, filename),
                                       !.schema = Exec(st, filename[2]).txSchema]

\* variant: a script that cannot be read is taken as an empty script
runScriptIgnoresMissing(st, filename, fault) ==
    IF filename[2] \notin fs[filename[1]] THEN st
    ELSE IF fault.op = "exec" /\ UpFile(fault.at) = filename[2] THEN Fail(st, "exec")
    ELSE IF fault.op = "exec" /\ DownFile(fault.at) = filename[2] THEN Fail(st, "exec")
    ELSE [Exec(st, filename[2]) EXCEPT !.ran = Append(@, filename)]

\* runScript(tx, filename): filename is <<directory, name>>
runScript(st, filename, fault) ==
    IF filename[2] \notin fs[filename[1]] THEN Fail(st, "read")
    ELSE IF fault.op = "exec" /\ UpFile(fault.at) = filename[2] THEN Fail(st, "exec")
    ELSE IF fault.op = "exec" /\ DownFile(fault.at) = filename[2] THEN Fail(st, "exec")
    ELSE [Exec(st, filename[2]) EXCEPT !.ran = Append(@, filename)]

\* variant: the row is inserted on db, outside the transaction
registerMigrationOnDb(st, id, fault) ==
    IF fault.op = "register" /\ fault.at = id THEN Fail(st, "register")
    ELSE IF id \in LedgerIds(st.txLedger) THEN Fail(st, "register")
    ELSE [st EXCEPT !.txLedger = @ \cup {[id |-> id, applied |-> st.now]},
                    !.ledger = @ \cup {[id |-> id, applied |-> st.now]}]

\* variant: the table has no primary key
registerMigrationNoKey(st, id, fault) ==
    IF fault.op = "register" /\ fault.at = id THEN Fail(st, "register")
    ELSE [st EXCEPT !.txLedger = @ \cup {[id |-> id, applied |-> st.now]}]

\* registerMigration(tx, id): INSERT INTO migration VALUES ($1); id is the primary key
registerMigration(st, id, fault) ==
    IF fault.op = "register" /\ fault.at = id THEN Fail(st, "register")
    ELSE IF id \in LedgerIds(st.txLedger) THEN Fail(st, "register")
    ELSE [st EXCEPT !.txLedger = @ \cup {[id |-> id, applied |-> st.now]}]

\* variant: the row is deleted on db, outside the transaction
unregisterMigrationOnDb(st, id, fault) ==
    IF fault.op = "unregister" /\ fault.at = id THEN Fail(st, "unregister")
    ELSE [st EXCEPT !.txLedger = {r \in @ : r.id # id},
                    !.ledger = {r \in @ : r.id # id}]

\* unregisterMigration(tx, id): DELETE FROM migration WHERE id = $1
unregisterMigration(st, id, fault) ==
    IF fault.op = "unregister" /\ fault.at = id THEN Fail(st, "unregister")
    ELSE [st EXCEPT !.txLedger = {r \in @ : r.id # id}]

----------------------------------------------------------------------------
(* up *)

\* the body of the loop of doUp for one id
upStep(st, sourcedir, id, fault) ==
    IF ~st.table THEN Fail(st, "check")
    ELSE IF isMigrationApplied(st, id) THEN st
    ELSE Then(runScript(st, <<sourcedir, UpFile(id)>>, fault), LAMBDA s1 :
         Then(registerMigration(s1, id, fault), LAMBDA s2 :
         [s2 EXCEPT !.out = Append(@, <<"up", id>>)]))

RECURSIVE upLoop(_, _, _, _, _)
upLoop(st, sourcedir, migrations, i, fault) ==
    IF i > Len(migrations) \/ st.err # "" THEN st
    ELSE Then(upStep(st, sourcedir, migrations[i], fault), LAMBDA s1 :
         upLoop(s1, sourcedir, migrations, i + 1, fault))

\* doUp with --sourcedir=sourcedir; migrations is what listDirMigrations() returns
doUp(sourcedir, migrations, now, fault) ==
    Then(Begin(now, fault), LAMBDA st :
    Then(upLoop(st, sourcedir, migrations, 1, fault), LAMBDA s1 :
    Commit(s1, fault)))

\* an invocation of up, the history left aside
UpRun ==
    \E migrations \in {listDirMigrations} :
    \E sourcedir \in Dirs, fault \in Faults(Range(migrations)),
       now \in clock..Min(clock + 1, MaxClock) :
        /\ fault.op # "unregister"
        /\ \E st \in {doUp(sourcedir, migrations, now, fault)} :
               /\ ledger' = st.ledger
               /\ schema' = st.schema
               /\ clock' = IF st.ledger # ledger THEN now ELSE clock
               /\ last' = [cmd |-> "up", sd |-> sourcedir, n |-> 0, arg |-> <<>>,
                           err |-> st.err, ran |-> st.ran, out |-> st.out, idx |-> st.idx]
               /\ UNCHANGED <<fs, tableExists, written, proc>>

Up == UpRun /\ UNCHANGED executed

----------------------------------------------------------------------------
(* down *)

\* variant: ORDER BY id
RecordLessById(a, b) == StringLess(a.id, b.id)

\* ORDER BY applied, id
RecordLess(a, b) ==
    \/ a.applied < b.applied
    \/ a.applied = b.applied /\ StringLess(a.id, b.id)

RECURSIVE SortRecords(_)
SortRecords(S) ==
    IF S = {} THEN <<>>
    ELSE LET m == CHOOSE x \in S : \A y \in S \ {x} : RecordLess(x, y)
         IN <<m>> \o SortRecords(S \ {m})

\* variant: SELECT id, applied FROM migration ORDER BY id
listAppliedMigrationsById(rows) ==
    LET ids == SortStrings(Listing(LedgerIds(rows)))
    IN [i \in 1..Len(ids) |-> CHOOSE r \in rows : r.id = ids[i]]

\* listAppliedMigrations(db): SELECT id, applied FROM migration ORDER BY applied, id
listAppliedMigrations(rows) == SortRecords(rows)

\* the second command line argument of down: absent, a number, or not a number
Args == {[kind |-> "absent", n |-> 1], [kind |-> "bad", n |-> 0]}
        \cup [kind : {"int"}, n : 0..MaxN]

\* the body of the loop of doDown for index i (Go slices count from 0)
downStep(st, sourcedir, migrations, j, fault) ==
    IF j < 0 \/ j >= Len(migrations) THEN Fail(st, "panic")
    ELSE
    LET id == migrations[j + 1].id IN
    Then(runScript([st EXCEPT !.idx = Append(@, j)], <<sourcedir, DownFile(id)>>, fault), LAMBDA s1 :
    Then(unregisterMigration(s1, id, fault), LAMBDA s2 :
    [s2 EXCEPT !.out = Append(@, <<"down", id>>)]))

RECURSIVE downLoopKeepsOldest(_, _, _, _, _, _)
\* variant: the loop ends at j <= 0
downLoopKeepsOldest(st, sourcedir, migrations, n, i, fault) ==
    IF ~(i < n) \/ st.err # "" THEN st
    ELSE LET j == Len(migrations) - 1 - i IN
         IF j <= 0 THEN st
         ELSE Then(downStep(st, sourcedir, migrations, j, fault), LAMBDA s1 :
              downLoopKeepsOldest(s1, sourcedir, migrations, n, i + 1, fault))

RECURSIVE downLoopNoBreak(_, _, _, _, _, _)
\* variant: the loop does not end at j < 0
downLoopNoBreak(st, sourcedir, migrations, n, i, fault) ==
    IF ~(i < n) \/ st.err # "" THEN st
    ELSE LET j == Len(migrations) - 1 - i IN
         Then(downStep(st, sourcedir, migrations, j, fault), LAMBDA s1 :
         downLoopNoBreak(s1, sourcedir, migrations, n, i + 1, fault))

RECURSIVE downLoop(_, _, _, _, _, _)
downLoop(st, sourcedir, migrations, n, i, fault) ==
    IF ~(i < n) \/ st.err # "" THEN st
    ELSE LET j == Len(migrations) - 1 - i IN
         IF j < 0 THEN st
         ELSE Then(downStep(st, sourcedir, migrations, j, fault), LAMBDA s1 :
              downLoop(s1, sourcedir, migrations, n, i + 1, fault))

\* doDown with --sourcedir=sourcedir and the argument arg; migrations is what
\* listAppliedMigrations(db) returns when the table exists
doDown(sourcedir, migrations, arg, fault) ==
    Then(Begin(clock, fault), LAMBDA st :
    IF arg.kind = "bad" THEN Fail(st, "atoi")
    ELSE IF ~st.table THEN Fail([st EXCEPT !.n = arg.n], "list")
    ELSE Then(downLoop([st EXCEPT !.n = arg.n], sourcedir, migrations, arg.n, 0, fault),
              LAMBDA s1 : Commit(s1, fault)))

\* an invocation of down, the history left aside
DownRun ==
    \E migrations \in {listAppliedMigrations(ledger)} :
    \E sourcedir \in Dirs, arg \in Args, fault \in Faults(LedgerIds(ledger)) :
        /\ fault.op # "register"
        /\ \E st \in {doDown(sourcedir, migrations, arg, fault)} :
               /\ ledger' = st.ledger
               /\ schema' = st.schema
               /\ last' = [cmd |-> "down", sd |-> sourcedir, n |-> st.n, arg |-> <<>>,
                           err |-> st.err, ran |-> st.ran, out |-> st.out, idx |-> st.idx]
               /\ UNCHANGED <<fs, tableExists, clock, written, proc>>

Down == DownRun /\ UNCHANGED executed

----------------------------------------------------------------------------
(* init *)

\* variant: CREATE TABLE migration (...), an error when the table exists
initMigrationTableOnce(fault) ==
    IF fault.op = "begin" THEN [table |-> tableExists, err |-> "create"]
    ELSE IF tableExists THEN [table |-> TRUE, err |-> "exists"]
    ELSE [table |-> TRUE, err |-> ""]

\* initMigrationTable(db): CREATE TABLE IF NOT EXISTS migration (...)
initMigrationTable(fault) ==
    IF fault.op = "begin" THEN [table |-> tableExists, err |-> "create"]
    ELSE [table |-> TRUE, err |-> ""]

InitCmd ==
    \E fault \in {f \in Faults({}) : f.op \in {"none", "begin"}} :
        LET r == initMigrationTable(fault) IN
        /\ tableExists' = r.table
        /\ last' = [cmd |-> "init", sd |-> DefaultDir, n |-> 0, arg |-> <<>>,
                    err |-> r.err, ran |-> <<>>, out |-> <<>>, idx |-> <<>>]
        /\ UNCHANGED <<fs, ledger, schema, clock, written, executed, proc>>

----------------------------------------------------------------------------
(* new *)

\* strings.Cut(s, "_"): the place of the first "_" in s, 0 when there is none
RECURSIVE CutAt(_, _)
CutAt(s, i) ==
    IF i > Len(s) THEN 0
    ELSE IF s[i] = "_" THEN i
    ELSE CutAt(s, i + 1)

IsDigit(c) == 48 <= Byte(c) /\ Byte(c) <= 57

RECURSIVE ParseDigits(_, _, _)
ParseDigits(s, i, acc) ==
    IF i > Len(s) THEN acc
    ELSE ParseDigits(s, i + 1, 10 * acc + (Byte(s[i]) - 48))

\* variant: every text is taken as a number, 0 when it is none
AtoiLenient(s) ==
    IF s = <<>> \/ \E i \in 1..Len(s) : ~IsDigit(s[i])
    THEN [ok |-> TRUE, n |-> 0]
    ELSE [ok |-> TRUE, n |-> ParseDigits(s, 1, 0)]

\* strconv.Atoi(s): an optional sign and decimal digits, anything else is an error
Atoi(s) ==
    LET signed == s # <<>> /\ s[1] \in {"+", "-"}
        digits == IF signed THEN Tail(s) ELSE s
    IN IF digits = <<>> \/ \E i \in 1..Len(digits) : ~IsDigit(digits[i])
       THEN [ok |-> FALSE, n |-> 0]
       ELSE [ok |-> TRUE,
             n |-> IF s[1] = "-" THEN 0 - ParseDigits(digits, 1, 0)
                   ELSE ParseDigits(digits, 1, 0)]

RECURSIVE Decimal(_)
\* the decimal digits of a natural number
Decimal(n) ==
    IF n < 10 THEN <<Digits[n + 1]>>
    ELSE Append(Decimal(n \div 10), Digits[(n % 10) + 1])

RECURSIVE ZeroPad(_, _)
ZeroPad(s, width) == IF Len(s) >= width THEN s ELSE ZeroPad(<<"0">> \o s, width)

\* fmt.Sprintf("%04d", n): at least 4 characters, the sign among them
Sprintf04d(n) ==
    IF n < 0 THEN <<"-">> \o ZeroPad(Decimal(0 - n), 3)
    ELSE ZeroPad(Decimal(n), 4)

\* variant: the label is taken as it is given
ReplaceSpacesNone(s) == s

\* strings.ReplaceAll(s, " ", "_")
ReplaceSpaces(s) == [i \in 1..Len(s) |-> IF s[i] = " " THEN "_" ELSE s[i]]

Sentinel == <<"0", "0", "0", "0", "_", "u", "n", "n", "a", "m", "e", "d">> \o UpSuffix
Unnamed == <<"u", "n", "n", "a", "m", "e", "d">>
SqlSuffix == <<".", "s", "q", "l">>

\* the labels given to new; the empty one stands for no argument
Labels == {<<>>}

\* the faults of new: os.Create fails for the up file or for the down file
NewFaults == {"none"}

\* doNew with --sourcedir=sourcedir and the label arg: the error and the files created
doNew(sourcedir, arg, fault) ==
    With(ReadDir(sourcedir), LAMBDA entries :
    LET lastEntry == IF Len(entries) > 0 THEN entries[Len(entries)] ELSE Sentinel
        cut == CutAt(lastEntry, 1)
        serial == SubSeq(lastEntry, 1, cut - 1)
    IN IF cut = 0 THEN [err |-> "counter", files |-> {}]
       ELSE IF ~Atoi(serial).ok THEN [err |-> "atoi", files |-> {}]
       ELSE LET nextSerial == Sprintf04d(Atoi(serial).n + 1)
                label == ReplaceSpaces(IF arg = <<>> THEN Unnamed ELSE arg)
                file(t) == nextSerial \o <<"_">> \o label \o <<".">> \o t \o SqlSuffix
            IN IF fault = "up" THEN [err |-> "create", files |-> {}]
               ELSE IF fault = "down"
               THEN [err |-> "create", files |-> {file(<<"u", "p">>)}]
               ELSE [err |-> "",
                     files |-> {file(<<"u", "p">>), file(<<"d", "o", "w", "n">>)}])

RECURSIVE Sum(_, _)
Sum(f, S) == IF S = {} THEN 0
             ELSE LET x == CHOOSE e \in S : TRUE IN f[x] + Sum(f, S \ {x})

\* the number of files on disk
FileCount == Sum([dir \in Dirs |-> Cardinality(fs[dir])], Dirs)

\* an invocation of new with --sourcedir among dirs and a label of labels,
\* meeting a fault of faults, while the disk holds fewer than maxFiles files;
\* os.Create leaves the file it opens empty, whether the file is new or not
NewWith(dirs, labels, faults, maxFiles) ==
    \E sourcedir \in dirs, arg \in labels, fault \in faults :
        /\ FileCount + 2 <= maxFiles
        /\ \E r \in {doNew(sourcedir, arg, fault)} :
               /\ fs' = [fs EXCEPT ![sourcedir] = @ \cup r.files]
               /\ written' = written \ {<<sourcedir, f>> : f \in r.files}
               /\ last' = [cmd |-> "new", sd |-> sourcedir, n |-> 0, arg |-> arg,
                           err |-> r.err, ran |-> <<>>, out |-> <<>>, idx |-> <<>>]
               /\ UNCHANGED <<tableExists, ledger, schema, clock, executed, proc>>

New == NewWith(Dirs, Labels, NewFaults, MaxFiles)

----------------------------------------------------------------------------
(* The author of the migrations writes a script file into a directory.     *)

Author ==
    \E dir \in Dirs, id \in Ids, suffixes \in SUBSET {UpSuffix, DownSuffix} :
        LET files == {id \o suffix : suffix \in suffixes} IN
        /\ files # {}
        /\ dir = OtherDir => id \in OtherIds
        /\ (id \notin LateDownIds \/ dir = OtherDir) => Cardinality(files) = 2
        /\ DownFile(id) \in files /\ UpFile(id) \notin files => UpFile(id) \in fs[dir]
        /\ files \cap fs[dir] = {}
        /\ FileCount + Cardinality(files) <= MaxFiles
        /\ fs' = [fs EXCEPT ![dir] = @ \cup files]
        /\ written' = written \cup {<<dir, f>> : f \in files}
        /\ last' = [cmd |-> "author", sd |-> dir, n |-> 0, arg |-> <<>>,
                    err |-> "", ran |-> <<>>, out |-> <<>>, idx |-> <<>>]
        /\ UNCHANGED <<tableExists, ledger, schema, clock, executed, proc>>

----------------------------------------------------------------------------

\* the invocations that may run side by side
Procs == {1, 2}

\* an invocation that has not started
Idle == [cmd |-> "idle", pc |-> "idle", migrations |-> <<>>, i |-> 0, n |-> 0, now |-> 0,
         ran |-> <<>>, reg |-> {}, unreg |-> {}, out |-> <<>>, err |-> ""]

Init ==
    /\ fs = [dir \in Dirs |-> {}]
    /\ tableExists = FALSE
    /\ ledger = {}
    /\ schema = {}
    /\ clock = 0
    /\ written = {}
    /\ executed = <<>>
    /\ proc = [p \in Procs |-> Idle]
    /\ last = [cmd |-> "none", sd |-> DefaultDir, n |-> 0, arg |-> <<>>,
               err |-> "", ran |-> <<>>, out |-> <<>>, idx |-> <<>>]

Next == InitCmd \/ New \/ Up \/ Down \/ Author

Spec == Init /\ [][Next]_vars

----------------------------------------------------------------------------
(* The commands with the history of the executions: which applied          *)
(* migration had its up-script executed when, and by which run.            *)

\* the number of the run that follows the runs of the applied migrations
NextRun ==
    IF executed = <<>> THEN 1
    ELSE 1 + (CHOOSE m \in {executed[i].run : i \in 1..Len(executed)} :
                  \A i \in 1..Len(executed) : executed[i].run <= m)

\* the up-scripts an invocation ran, as entries of the history
RunOf(ran) ==
    [i \in 1..Len(ran) |-> [id |-> TrimSuffix(ran[i][2], UpSuffix), run |-> NextRun]]

UpTracked ==
    /\ UpRun
    /\ executed' = IF last'.err = "" THEN executed \o RunOf(last'.ran) ELSE executed

DownTracked ==
    /\ DownRun
    /\ executed' = SelectSeq(executed, LAMBDA e : e.id \in LedgerIds(ledger'))

NextOrder == InitCmd \/ UpTracked \/ DownTracked \/ Author

SpecOrder == Init /\ [][NextOrder]_vars

----------------------------------------------------------------------------
(* The scaffolder taken alone: new with any label, os.Create failing or    *)
(* not, in directories that hold what new made and what people wrote.      *)

\* largest number of files on disk when the scaffolder is taken alone
MaxScaffold == 5

\* largest number of files that hold text when the scaffolder is taken alone
MaxWritten == 2

\* labels given to new: none, one with a space, a plain one
AnyLabels == {<<>>, <<"a", " ", "b">>, <<"c">>}

\* os.Create succeeds, fails for the up file, fails for the down file
AnyNewFaults == {"none", "up", "down"}

\* the directory given with --sourcedir when the scaffolder is taken alone
ScaffoldDirs == {DefaultDir}

NewAny == NewWith(ScaffoldDirs, AnyLabels, AnyNewFaults, MaxScaffold)

\* new invocations alone, from empty directories
SpecScaffold == Init /\ [][NewAny]_vars

\* names of files people write: one without "_", one whose text before
\* the "_" is no number, one whose serial has two digits
Readme == <<"r", "e", "a", "d", "m", "e">>
WriteNames == {Readme, <<"x", "_", "1">> \o UpSuffix, UpFile(Id2)}

\* somebody writes text into a file of a directory, a new or an empty one
Write ==
    \E dir \in ScaffoldDirs :
    \E name \in WriteNames \cup fs[dir] :
        /\ <<dir, name>> \notin written
        /\ Cardinality(written) < MaxWritten
        /\ name \in fs[dir] \/ FileCount + 1 <= MaxScaffold
        /\ fs' = [fs EXCEPT ![dir] = @ \cup {name}]
        /\ written' = written \cup {<<dir, name>>}
        /\ last' = [cmd |-> "author", sd |-> dir, n |-> 0, arg |-> <<>>,
                    err |-> "", ran |-> <<>>, out |-> <<>>, idx |-> <<>>]
        /\ UNCHANGED <<tableExists, ledger, schema, clock, executed, proc>>

NextNew == NewAny \/ Write

SpecNew == Init /\ [][NextNew]_vars

----------------------------------------------------------------------------
(* The invocations statement by statement, so that two of them can run     *)
(* side by side against one database (PostgreSQL, READ COMMITTED): a       *)
(* statement sees what is committed and what its own transaction has done; *)
(* an INSERT or DELETE waits for the transaction that holds the row.       *)

\* the ledger as the transaction of invocation pr sees it
TxLedger(pr) == {r \in ledger : r.id \notin pr.unreg} \cup pr.reg

RECURSIVE ExecAll(_, _, _)
\* the scripts of ran executed one after the other, from the i-th on
ExecAll(st, ran, i) ==
    IF i > Len(ran) THEN st ELSE ExecAll(Exec(st, ran[i][2]), ran, i + 1)

\* what invocation pr has at hand when it runs its next statement
View(pr) ==
    ExecAll([table |-> tableExists, ledger |-> ledger, schema |-> schema,
             txLedger |-> TxLedger(pr), txSchema |-> schema, now |-> pr.now,
             err |-> "", n |-> pr.n, ran |-> pr.ran, out |-> pr.out, idx |-> <<>>],
            pr.ran, 1)

\* the invocation is inside its transaction
InTx(pr) == pr.pc \notin {"idle", "committed", "failed"}

\* the invocation ended with error e; the deferred tx.Rollback drops its changes
Failed(pr, e) == [pr EXCEPT !.pc = "failed", !.err = e]

\* variant: the older doUp prints the id before it runs the script
UpOrderOld == <<"print", "exec", "register">>

\* the statements of the loop body of doUp after the applied check, in order
UpOrder == <<"exec", "register", "print">>

\* the statements of the loop body of doDown, in order
DownOrder == <<"exec", "unregister", "print">>

\* the invocation after statement stmt of a loop body: at the next
\* statement, or at the head of the loop for the next entry
Advance(pr, order, stmt, head) ==
    LET k == CHOOSE k \in 1..Len(order) : order[k] = stmt
    IN IF k = Len(order) THEN [pr EXCEPT !.pc = head, !.i = @ + 1]
       ELSE [pr EXCEPT !.pc = order[k + 1]]

\* another transaction holds the row of id: it inserted or deleted it and
\* has not ended
RowHeld(p, id) ==
    \E q \in Procs \ {p} :
        /\ InTx(proc[q])
        /\ id \in LedgerIds(proc[q].reg) \cup proc[q].unreg

\* the id the invocation is at
UpId(pr) == pr.migrations[pr.i]
DownId(pr) == pr.migrations[Len(pr.migrations) - pr.i].id

\* db.Begin() and listDirMigrations()
UpBegin(p) ==
    /\ proc[p].pc = "idle"
    /\ \E now \in 0..MaxClock, fault \in {NoFault, [op |-> "begin", at |-> NoId]} :
           \E st \in {Begin(now, fault)} :
               proc' = [proc EXCEPT ![p] =
                   IF st.err # "" THEN Failed([Idle EXCEPT !.cmd = "up"], st.err)
                   ELSE [Idle EXCEPT !.cmd = "up", !.pc = "check", !.i = 1, !.now = now,
                                     !.migrations = listDirMigrations]]
    /\ UNCHANGED <<fs, tableExists, ledger, schema, clock, last, written, executed>>

\* the head of the loop of doUp and isMigrationApplied(db, id)
UpCheck(p) ==
    /\ proc[p].cmd = "up" /\ proc[p].pc = "check"
    /\ \E pr \in {proc[p]} :
           proc' = [proc EXCEPT ![p] =
               IF pr.i > Len(pr.migrations) THEN [pr EXCEPT !.pc = "commit"]
               ELSE IF ~tableExists THEN Failed(pr, "check")
               ELSE IF isMigrationApplied(View(pr), UpId(pr)) THEN [pr EXCEPT !.i = @ + 1]
               ELSE [pr EXCEPT !.pc = UpOrder[1]]]
    /\ UNCHANGED <<fs, tableExists, ledger, schema, clock, last, written, executed>>

\* runScript(tx, *sourcedir + "/" + id + ".up.sql")
UpExec(p) ==
    /\ proc[p].cmd = "up" /\ proc[p].pc = "exec"
    /\ \E pr \in {proc[p]} :
       \E fault \in {NoFault, [op |-> "exec", at |-> UpId(pr)]} :
       \E st \in {runScript(View(pr), <<DefaultDir, UpFile(UpId(pr))>>, fault)} :
           proc' = [proc EXCEPT ![p] =
               IF st.err # "" THEN Failed(pr, st.err)
               ELSE Advance([pr EXCEPT !.ran = st.ran], UpOrder, "exec", "check")]
    /\ UNCHANGED <<fs, tableExists, ledger, schema, clock, last, written, executed>>

\* registerMigration(tx, id)
UpRegister(p) ==
    /\ proc[p].cmd = "up" /\ proc[p].pc = "register"
    /\ ~RowHeld(p, UpId(proc[p]))
    /\ \E pr \in {proc[p]} :
       \E fault \in {NoFault, [op |-> "register", at |-> UpId(pr)]} :
       \E st \in {registerMigration(View(pr), UpId(pr), fault)} :
           proc' = [proc EXCEPT ![p] =
               IF st.err # "" THEN Failed(pr, st.err)
               ELSE Advance([pr EXCEPT !.reg = @ \cup (st.txLedger \ TxLedger(pr))],
                            UpOrder, "register", "check")]
    /\ UNCHANGED <<fs, tableExists, ledger, schema, clock, last, written, executed>>

\* fmt.Println("up", id)
UpPrint(p) ==
    /\ proc[p].cmd = "up" /\ proc[p].pc = "print"
    /\ \E pr \in {proc[p]} :
           proc' = [proc EXCEPT ![p] =
               Advance([pr EXCEPT !.out = Append(@, <<"up", UpId(pr)>>)],
                       UpOrder, "print", "check")]
    /\ UNCHANGED <<fs, tableExists, ledger, schema, clock, last, written, executed>>

\* tx.Commit(), of up and of down
TxCommit(p) ==
    /\ proc[p].pc = "commit"
    /\ \E pr \in {proc[p]} :
       \E fault \in {NoFault, [op |-> "commit", at |-> NoId]} :
       \E st \in {Commit(View(pr), fault)} :
           /\ proc' = [proc EXCEPT ![p] =
                  IF st.err # "" THEN Failed(pr, st.err)
                  ELSE [pr EXCEPT !.pc = "committed"]]
           /\ ledger' = st.ledger
           /\ schema' = st.schema
    /\ UNCHANGED <<fs, tableExists, clock, last, written, executed>>

\* db.Begin(), strconv.Atoi(arg) and listAppliedMigrations(db)
DownBegin(p) ==
    /\ proc[p].pc = "idle"
    /\ \E arg \in Args, fault \in {NoFault, [op |-> "begin", at |-> NoId]} :
       \E st \in {Begin(clock, fault)} :
           proc' = [proc EXCEPT ![p] =
               IF st.err # "" THEN Failed([Idle EXCEPT !.cmd = "down"], st.err)
               ELSE IF arg.kind = "bad" THEN Failed([Idle EXCEPT !.cmd = "down"], "atoi")
               ELSE IF ~tableExists
               THEN Failed([Idle EXCEPT !.cmd = "down", !.n = arg.n], "list")
               ELSE [Idle EXCEPT !.cmd = "down", !.pc = "loop", !.n = arg.n,
                                 !.migrations = listAppliedMigrations(ledger)]]
    /\ UNCHANGED <<fs, tableExists, ledger, schema, clock, last, written, executed>>

\* the head of the loop of doDown: i < n, and the break at j < 0
DownLoop(p) ==
    /\ proc[p].cmd = "down" /\ proc[p].pc = "loop"
    /\ \E pr \in {proc[p]} :
           proc' = [proc EXCEPT ![p] =
               IF ~(pr.i < pr.n) \/ Len(pr.migrations) - 1 - pr.i < 0
               THEN [pr EXCEPT !.pc = "commit"]
               ELSE [pr EXCEPT !.pc = DownOrder[1]]]
    /\ UNCHANGED <<fs, tableExists, ledger, schema, clock, last, written, executed>>

\* runScript(tx, *sourcedir + "/" + id + ".down.sql")
DownExec(p) ==
    /\ proc[p].cmd = "down" /\ proc[p].pc = "exec"
    /\ \E pr \in {proc[p]} :
       \E fault \in {NoFault, [op |-> "exec", at |-> DownId(pr)]} :
       \E st \in {runScript(View(pr), <<DefaultDir, DownFile(DownId(pr))>>, fault)} :
           proc' = [proc EXCEPT ![p] =
               IF st.err # "" THEN Failed(pr, st.err)
               ELSE Advance([pr EXCEPT !.ran = st.ran], DownOrder, "exec", "loop")]
    /\ UNCHANGED <<fs, tableExists, ledger, schema, clock, last, written, executed>>

\* unregisterMigration(tx, id): the rows the DELETE removed are kept in unreg
DownUnregister(p) ==
    /\ proc[p].cmd = "down" /\ proc[p].pc = "unregister"
    /\ ~RowHeld(p, DownId(proc[p]))
    /\ \E pr \in {proc[p]} :
       \E fault \in {NoFault, [op |-> "unregister", at |-> DownId(pr)]} :
       \E st \in {unregisterMigration(View(pr), DownId(pr), fault)} :
           proc' = [proc EXCEPT ![p] =
               IF st.err # "" THEN Failed(pr, st.err)
               ELSE Advance([pr EXCEPT !.unreg = @ \cup (LedgerIds(TxLedger(pr))
                                                         \ LedgerIds(st.txLedger))],
                            DownOrder, "unregister", "loop")]
    /\ UNCHANGED <<fs, tableExists, ledger, schema, clock, last, written, executed>>

\* fmt.Println("down", id)
DownPrint(p) ==
    /\ proc[p].cmd = "down" /\ proc[p].pc = "print"
    /\ \E pr \in {proc[p]} :
           proc' = [proc EXCEPT ![p] =
               Advance([pr EXCEPT !.out = Append(@, <<"down", DownId(pr)>>)],
                       DownOrder, "print", "loop")]
    /\ UNCHANGED <<fs, tableExists, ledger, schema, clock, last, written, executed>>

\* the worlds the invocations start in: the scripts of the authored
\* migrations in "migrations", the down-script of a migration whose
\* down-script may come late there or not, the table created or not, some
\* of the migrations applied
InitSteps ==
    /\ fs \in {[dir \in Dirs |->
                   IF dir = DefaultDir
                   THEN {UpFile(id) : id \in Ids} \cup {DownFile(id) : id \in Ids \ late}
                   ELSE {}] : late \in SUBSET LateDownIds}
    /\ written = {<<DefaultDir, f>> : f \in fs[DefaultDir]}
    /\ tableExists \in BOOLEAN
    /\ ledger \in {{[id |-> id, applied |-> 0] : id \in S} :
                      S \in IF tableExists THEN SUBSET Ids ELSE {{}}}
    /\ schema = LedgerIds(ledger)
    /\ clock = 0
    /\ executed = <<>>
    /\ proc = [p \in Procs |-> Idle]
    /\ last = [cmd |-> "none", sd |-> DefaultDir, n |-> 0, arg |-> <<>>,
               err |-> "", ran |-> <<>>, out |-> <<>>, idx |-> <<>>]

\* one invocation of up, statement by statement
NextUpSteps ==
    UpBegin(1) \/ UpCheck(1) \/ UpExec(1) \/ UpRegister(1) \/ UpPrint(1) \/ TxCommit(1)

SpecUpSteps == InitSteps /\ [][NextUpSteps]_vars

\* two invocations of up side by side
NextUps ==
    \E p \in Procs :
        UpBegin(p) \/ UpCheck(p) \/ UpExec(p) \/ UpRegister(p) \/ UpPrint(p) \/ TxCommit(p)

SpecUps == InitSteps /\ [][NextUps]_vars

\* two invocations of down side by side
NextDowns ==
    \E p \in Procs :
        DownBegin(p) \/ DownLoop(p) \/ DownExec(p) \/ DownUnregister(p) \/ DownPrint(p)
        \/ TxCommit(p)

SpecDowns == InitSteps /\ [][NextDowns]_vars

----------------------------------------------------------------------------
(* What the properties below speak of.                                     *)

\* the step is an invocation of up, of down
IsUp == last'.cmd = "up"
IsDown == last'.cmd = "down"

\* the ids of the scripts an invocation ran, in the order it ran them
ScriptIds(ran, suffix) == [i \in 1..Len(ran) |-> TrimSuffix(ran[i][2], suffix)]

\* the ids of the up-scripts of a directory
UpIdsOf(dir) == {TrimSuffix(name, UpSuffix) : name \in {e \in fs[dir] : HasSuffix(e, UpSuffix)}}

\* string order, stated apart from the program: at the first place where a
\* and b differ a has the smaller byte, or a is a proper prefix of b
Before(a, b) ==
    \E k \in 1..Len(b) :
        /\ k - 1 <= Len(a)
        /\ SubSeq(a, 1, k - 1) = SubSeq(b, 1, k - 1)
        /\ (Len(a) = k - 1 \/ Byte(a[k]) < Byte(b[k]))

\* the order of the ledger: applied timestamp, then id string
AppliedBefore(a, b) ==
    \/ a.applied < b.applied
    \/ a.applied = b.applied /\ Before(a.id, b.id)

IsAscending(ids) == \A i, j \in 1..Len(ids) : i < j => Before(ids[i], ids[j])

----------------------------------------------------------------------------
(* C1. Atomicity of up: when an up-script (unreadable or failing) or a     *)
(* registration fails during up, the ledger and the schema are afterwards  *)
(* what they were before the run, and no id of the batch is in the ledger, *)
(* the ids applied before the failure included.                            *)

C1_UpAtomic ==
    [][(IsUp /\ last'.err \in {"read", "exec", "register"}) =>
          /\ ledger' = ledger
          /\ schema' = schema
          /\ \A i \in 1..Len(last'.ran) :
                ScriptIds(last'.ran, UpSuffix)[i] \notin LedgerIds(ledger')]_vars

\* an up failed after a migration of its batch was applied and printed,
\* over a ledger that held records
C1_Witness ==
    /\ last.cmd = "up"
    /\ last.err \in {"exec", "register"}
    /\ Len(last.out) >= 1
    /\ Len(last.ran) >= 1
    /\ ledger # {}

----------------------------------------------------------------------------
(* C2. Pending computation of up: a successful up runs the up-scripts of   *)
(* exactly the ids of the configured directory that are not in the ledger, *)
(* each once, in ascending string order, and ends with the ledger holding  *)
(* the ids it held before and the ids of the directory.                    *)

C2_UpAppliesPending ==
    [][(IsUp /\ last'.err = "") =>
          LET D == UpIdsOf(last'.sd)
              L == LedgerIds(ledger)
              ids == ScriptIds(last'.ran, UpSuffix)
          IN /\ Range(ids) = D \ L
             /\ Len(ids) = Cardinality(D \ L)
             /\ IsAscending(ids)
             /\ LedgerIds(ledger') = L \cup D
             /\ \A r \in ledger : r \in ledger']_vars

----------------------------------------------------------------------------
(* C3. Selection and order of down: a successful down n, n >= 1, reverts   *)
(* the last min(n, k) of the k records of the ledger ordered by (applied,  *)
(* id), the most recent first, and leaves every other record as it was.    *)

C3_DownOrder ==
    [][(IsDown /\ last'.err = "" /\ last'.n >= 1) =>
          LET reverted == ledger \ ledger'
              m == Min(last'.n, Cardinality(ledger))
              ids == ScriptIds(last'.ran, DownSuffix)
          IN /\ ledger' \subseteq ledger
             /\ Cardinality(reverted) = m
             /\ \A r \in reverted, q \in ledger' : AppliedBefore(q, r)
             /\ Len(ids) = m
             /\ Range(ids) = LedgerIds(reverted)
             /\ \A i, j \in 1..Len(ids) : i < j =>
                   \E r \in reverted, q \in reverted :
                       /\ r.id = ids[i] /\ q.id = ids[j]
                       /\ AppliedBefore(q, r)]_vars

\* a down reverted two records and left a record in the ledger
C3_Witness ==
    /\ last.cmd = "down"
    /\ last.err = ""
    /\ last.n = 2
    /\ Len(last.ran) = 2
    /\ ledger # {}

----------------------------------------------------------------------------
(* C4. Atomicity of down: when a down-script (unreadable or failing) or a  *)
(* deletion fails during down, the ledger holds afterwards the records it  *)
(* held before the run, the ones reverted before the failure included.     *)

C4_DownAtomic ==
    [][(IsDown /\ last'.err \in {"read", "exec", "unregister"}) =>
          /\ ledger' = ledger
          /\ schema' = schema]_vars

\* a down met a down-script it could not read after it had reverted a record
C4_Witness ==
    /\ last.cmd = "down"
    /\ last.err = "read"
    /\ Len(last.out) >= 1
    /\ \A i \in 1..Len(last.out) : last.out[i][2] \in LedgerIds(ledger)

----------------------------------------------------------------------------
(* C5. Ledger/schema consistency: in every committed state the ids of the  *)
(* ledger are the ids whose up-script effects are committed and not        *)
(* reverted.                                                               *)

C5_LedgerMatchesSchema == LedgerIds(ledger) = schema

\* a down failed after it ran a down-script, over a ledger that holds records
C5_Witness ==
    /\ last.cmd = "down"
    /\ last.err # ""
    /\ Len(last.ran) >= 1
    /\ ledger # {}
    /\ schema # {}

----------------------------------------------------------------------------
(* C6. Idempotence of up: an up that follows a successful up, no file      *)
(* having been written in between, runs no script, prints no line and      *)
(* leaves the ledger as it was; every id the first up applied is reported  *)
(* as applied.                                                             *)

C6_UpIdempotent ==
    [][(last.cmd = "up" /\ last.err = "" /\ IsUp) =>
          /\ last'.ran = <<>>
          /\ last'.out = <<>>
          /\ ledger' = ledger
          /\ schema' = schema
          /\ \A i \in 1..Len(last.ran) :
                isMigrationApplied(Begin(clock, NoFault),
                                   ScriptIds(last.ran, UpSuffix)[i])]_vars

\* an up found every migration of the directory applied and ran nothing
C6_Witness ==
    /\ last.cmd = "up"
    /\ last.err = ""
    /\ last.ran = <<>>
    /\ Cardinality(ledger) >= 2
    /\ LedgerIds(ledger) = UpIdsOf(DefaultDir)

----------------------------------------------------------------------------
(* C7. Round trip: from an empty ledger, a successful up that applies N    *)
(* migrations followed by a successful down N leaves the ledger empty and  *)
(* the schema without the effect of any migration, as before the up (by    *)
(* C5 the schema of an empty ledger holds no effect).                      *)

C7_RoundTrip ==
    [][(/\ last.cmd = "up" /\ last.err = ""
        /\ Cardinality(ledger) = Len(last.ran)
        /\ IsDown /\ last'.err = ""
        /\ last'.n = Len(last.ran)) =>
          /\ ledger' = {}
          /\ schema' = {}]_vars

\* a down 2 reverted two migrations and left the ledger and the schema empty
C7_Witness ==
    /\ last.cmd = "down"
    /\ last.err = ""
    /\ last.n = 2
    /\ Len(last.out) = 2
    /\ ledger = {}
    /\ schema = {}

----------------------------------------------------------------------------
(* C8. Silent truncation of down: with k records in the ledger and n > k,  *)
(* down n indexes the applied list only at 0..k-1, fails only when the     *)
(* database or a down-script fails, and otherwise reverts the k records,   *)
(* commits and ends without error.                                         *)

C8_DownTruncates ==
    [][(IsDown /\ tableExists /\ last'.n > Cardinality(ledger)) =>
          LET k == Cardinality(ledger) IN
          /\ \A i \in 1..Len(last'.idx) : last'.idx[i] \in 0..(k - 1)
          /\ last'.err \in {"", "begin", "read", "exec", "unregister", "commit"}
          /\ last'.err = "read" =>
                \E r \in ledger : DownFile(r.id) \notin fs[last'.sd]
          /\ last'.err = "" =>
                /\ ledger' = {}
                /\ Len(last'.out) = k
                /\ Len(last'.ran) = k]_vars

\* a down 2 over a ledger of one record reverted it and ended without error
C8_Witness ==
    /\ last.cmd = "down"
    /\ last.err = ""
    /\ last.n = 2
    /\ Len(last.out) = 1
    /\ ledger = {}
    /\ tableExists

----------------------------------------------------------------------------
(* C9. Source directory selection: after a successful up with --sourcedir  *)
(* every id that has an up-script in the configured directory is in the    *)
(* ledger.                                                                 *)

C9_UpUsesSourceDir ==
    [][(IsUp /\ last'.err = "") =>
          UpIdsOf(last'.sd) \subseteq LedgerIds(ledger')]_vars

----------------------------------------------------------------------------
(* C10. Ledger subset invariant: every id in the ledger is the id of an    *)
(* up-script file of the directory the migrations are listed from, and an  *)
(* up registers only ids that have an up-script file in the directory it   *)
(* was configured with.                                                    *)

C10_LedgerSubsetOfDir ==
    /\ \A r \in ledger : UpFile(r.id) \in fs[DefaultDir]
    /\ last.cmd = "up" =>
          \A i \in 1..Len(last.out) : UpFile(last.out[i][2]) \in fs[last.sd]

\* an up configured with the other directory registered a migration, and
\* the ledger holds a migration that new created
C10_Witness ==
    /\ last.cmd = "up"
    /\ last.sd = OtherDir
    /\ last.err = ""
    /\ Len(last.out) >= 1
    /\ \E r \in ledger : r.id \notin Ids

----------------------------------------------------------------------------
(* What the properties of the scaffolder speak of: the serial of a file    *)
(* name, stated apart from strings.Cut, strconv.Atoi and fmt.Sprintf.      *)

\* the text of a name before its first "_", the whole name when it has none
SerialText(name) ==
    LET k == CHOOSE k \in 1..(Len(name) + 1) :
                 /\ k = Len(name) + 1 \/ name[k] = "_"
                 /\ \A j \in 1..(k - 1) : name[j] # "_"
    IN SubSeq(name, 1, k - 1)

HasSeparator(name) == \E k \in 1..Len(name) : name[k] = "_"

AllDigits(text) == text # <<>> /\ \A i \in 1..Len(text) : text[i] \in Range(Digits)

DigitValue(c) == CHOOSE d \in 0..9 : Digits[d + 1] = c

RECURSIVE Value(_)
\* the number a text of digits denotes
Value(text) ==
    IF text = <<>> THEN 0
    ELSE 10 * Value(SubSeq(text, 1, Len(text) - 1)) + DigitValue(text[Len(text)])

SerialOf(name) == Value(SerialText(name))

\* the largest serial among names, 0 when there is none
MaxSerial(names) ==
    IF names = {} THEN 0
    ELSE CHOOSE m \in {SerialOf(g) : g \in names} : \A g \in names : SerialOf(g) <= m

\* the step is an invocation of new that ended without error
IsNewDone == last'.cmd = "new" /\ last'.err = ""

----------------------------------------------------------------------------
(* C11. Serial uniqueness and monotonicity of the scaffolder: in a         *)
(* directory that started empty and that only new has written to, every    *)
(* successful new adds a pair whose serial has 4 digits, is the largest    *)
(* serial of the directory plus one and so is greater than every serial    *)
(* already there; no two up-script files of the directory share a serial.  *)

----------------------------------------------------------------------------
(* C12. Existing migration files are never mutated: init, up and down      *)
(* leave every directory and the text of every file as they were; new      *)
(* leaves every file that existed in place and with the text it held, and  *)
(* a successful new adds two files whose names did not exist before.       *)

C12_FilesKept ==
    [][/\ last'.cmd \in {"init", "up", "down"} =>
             fs' = fs /\ written' = written
       /\ last'.cmd = "new" =>
             /\ \A dir \in Dirs : fs[dir] \subseteq fs'[dir]
             /\ \A dir \in Dirs : \A f \in fs[dir] :
                   <<dir, f>> \in written <=> <<dir, f>> \in written'
             /\ last'.err = "" =>
                   Cardinality(fs'[last'.sd] \ fs[last'.sd]) = 2]_vars

----------------------------------------------------------------------------
(* C13. Scaffolder result: a successful new with label L leaves the        *)
(* directory with the files it held and the two empty files                *)
(* <serial>_<L'>.up.sql and <serial>_<L'>.down.sql, where L' is L with     *)
(* every space replaced by an underscore, or unnamed when no label is      *)
(* given; the serial is 0001 in an empty directory and otherwise the       *)
(* serial of the last listed entry plus one, in at least 4 digits.         *)

\* t is the label with "_" in the place of every space
IsNormalOf(t, label) ==
    /\ Len(t) = Len(label)
    /\ \A i \in 1..Len(label) :
          /\ label[i] = " " => t[i] = "_"
          /\ label[i] # " " => t[i] = label[i]

\* the text of an id after its first "_"
LabelText(id) == SubSeq(id, Len(SerialText(id)) + 2, Len(id))

\* the entry of a non-empty directory that every other entry is listed before
LastListed(names) == CHOOSE n \in names : \A m \in names \ {n} : Before(m, n)

C13_NewResult ==
    [][IsNewDone =>
          LET old == fs[last'.sd]
              label == IF last'.arg = <<>> THEN <<"u", "n", "n", "a", "m", "e", "d">>
                       ELSE last'.arg
          IN \E up \in fs'[last'.sd], down \in fs'[last'.sd] :
                /\ HasSuffix(up, UpSuffix)
                /\ HasSuffix(down, DownSuffix)
                /\ TrimSuffix(up, UpSuffix) = TrimSuffix(down, DownSuffix)
                /\ fs'[last'.sd] = old \cup {up, down}
                /\ <<last'.sd, up>> \notin written'
                /\ <<last'.sd, down>> \notin written'
                /\ HasSeparator(up)
                /\ IsNormalOf(LabelText(TrimSuffix(up, UpSuffix)), label)
                /\ AllDigits(SerialText(up))
                /\ Len(SerialText(up)) >= 4
                /\ old = {} => SerialText(up) = <<"0", "0", "0", "1">>
                /\ old # {} => SerialOf(up) = SerialOf(LastListed(old)) + 1]_vars

\* a new with the label "a b" in an empty directory made 0001_a_b.up.sql
\* and 0001_a_b.down.sql
C13_Witness ==
    /\ last.cmd = "new"
    /\ last.err = ""
    /\ last.arg = <<"a", " ", "b">>
    /\ fs[last.sd] = {<<"0", "0", "0", "1", "_", "a", "_", "b">> \o UpSuffix,
                       <<"0", "0", "0", "1", "_", "a", "_", "b">> \o DownSuffix}
    /\ written = {}

----------------------------------------------------------------------------
(* C14. Scaffolder parse errors: when the last listed entry of the         *)
(* directory has no "_", or the text before its first "_" is not a number  *)
(* (digits, with or without a sign before them), new ends with the error   *)
(* of the missing counter or of the invalid number and creates no file:    *)
(* the directory and the text of its files are as they were.               *)

IsNumber(text) ==
    \/ AllDigits(text)
    \/ text # <<>> /\ text[1] \in {"+", "-"} /\ AllDigits(Tail(text))

C14_NewParseError ==
    [][(last'.cmd = "new" /\ fs[last'.sd] # {}) =>
          \A entry \in {LastListed(fs[last'.sd])} :
              (~HasSeparator(entry) \/ ~IsNumber(SerialText(entry))) =>
                  /\ last'.err = IF HasSeparator(entry) THEN "atoi" ELSE "counter"
                  /\ fs' = fs
                  /\ written' = written]_vars

\* a new ended with the error of the invalid number in a directory that
\* holds x_1.up.sql after a pair new made earlier
C14_Witness ==
    /\ last.cmd = "new"
    /\ last.err = "atoi"
    /\ <<"x", "_", "1">> \o UpSuffix \in fs[last.sd]
    /\ \E f \in fs[last.sd] : SerialText(f) = <<"0", "0", "0", "1">>

----------------------------------------------------------------------------
(* C15. Idempotence of init: init creates the ledger table only when it is *)
(* absent; an init at any place of a sequence of commands leaves the       *)
(* table in place and every record of the ledger as it was, and ends       *)
(* without error unless the database itself fails; where the table exists  *)
(* an init that ends without error is always possible.                     *)

C15_InitIdempotent ==
    [][/\ tableExists => ENABLED (InitCmd /\ last'.err = "")
       /\ last'.cmd = "init" =>
             /\ ledger' = ledger
             /\ schema' = schema
             /\ tableExists => tableExists'
             /\ last'.err \in {"", "create"}
             /\ last'.err = "" => tableExists'
             /\ last'.err = "create" => tableExists' = tableExists]_vars

\* an init ended without error over a ledger that holds records
C15_Witness ==
    /\ last.cmd = "init"
    /\ last.err = ""
    /\ tableExists
    /\ Cardinality(ledger) >= 2

----------------------------------------------------------------------------
(* C16. Progress lines of up: at every moment of an invocation of up, each *)
(* line it has printed is for an id whose up-script it has executed and    *)
(* whose record it has inserted inside its transaction; the ids of the     *)
(* lines are ascending and are the first of the pending ids (the ids with  *)
(* an up-script in the directory that are not in the ledger, or are there  *)
(* by this invocation); after a script or an insertion failed no line is   *)
(* there for the failed migration or for a later one.                      *)

\* the ids of the lines an invocation printed
OutIds(pr) == [i \in 1..Len(pr.out) |-> pr.out[i][2]]

\* the ids pending for invocation pr
PendingIds(pr) ==
    {id \in UpIdsOf(DefaultDir) :
        id \notin LedgerIds(ledger) \/ id \in LedgerIds(pr.reg)}

C16_UpLinesAfterSuccess ==
    LET pr == proc[1] IN
    pr.cmd = "up" =>
        /\ \A i \in 1..Len(pr.out) :
              /\ pr.out[i][1] = "up"
              /\ \E k \in 1..Len(pr.ran) : pr.ran[k] = <<DefaultDir, UpFile(OutIds(pr)[i])>>
              /\ OutIds(pr)[i] \in LedgerIds(pr.reg)
        /\ IsAscending(OutIds(pr))
        /\ Range(OutIds(pr)) \subseteq PendingIds(pr)
        /\ \A id \in PendingIds(pr) :
              (\E i \in 1..Len(pr.out) : Before(id, OutIds(pr)[i])) =>
                  id \in Range(OutIds(pr))
        /\ (pr.pc = "failed" /\ pr.err \in {"read", "exec", "register"}) =>
              \A i \in 1..Len(pr.out) : Before(OutIds(pr)[i], UpId(pr))

\* an up printed the line of its first migration and failed at the
\* insertion of the record of the second, whose script it had executed
C16_Witness ==
    /\ proc[1].cmd = "up"
    /\ proc[1].pc = "failed"
    /\ proc[1].err = "register"
    /\ Len(proc[1].out) = 1
    /\ Len(proc[1].ran) = 2

----------------------------------------------------------------------------
(* C17. Reverse application order, as stated: under a single writer a      *)
(* successful down n, n >= 1, runs the down-scripts of the last min(n, k)  *)
(* of the k applied migrations in the exact reverse of the order in which  *)
(* their up-scripts were executed, whatever the ids and the timestamps of  *)
(* the records.                                                            *)

\* the ids of the last k entries of the history, the latest first
LatestFirst(k) == [i \in 1..k |-> executed[Len(executed) + 1 - i].id]

\* the step is a down n, n >= 1, that ended without error
IsDownDone == last'.cmd = "down" /\ last'.err = "" /\ last'.n >= 1

C17_DownReversesExecution ==
    [][IsDownDone =>
          ScriptIds(last'.ran, DownSuffix)
              = LatestFirst(Min(last'.n, Len(executed)))]_vars

(* C17, with the runs apart in time: the same, when the records of every   *)
(* run carry a later applied timestamp than the records of every run       *)
(* before it.                                                              *)

AppliedOf(id) == (CHOOSE r \in ledger : r.id = id).applied

RunsApart ==
    \A i, j \in 1..Len(executed) :
        executed[i].run < executed[j].run =>
            AppliedOf(executed[i].id) < AppliedOf(executed[j].id)

C17_DownReversesExecutionApart ==
    [][(IsDownDone /\ RunsApart) =>
          ScriptIds(last'.ran, DownSuffix)
              = LatestFirst(Min(last'.n, Len(executed)))]_vars

\* a down 1 reverted 0002_a, executed last, and left 10_b, applied by an
\* earlier run, in the ledger
C17_Witness ==
    /\ last.cmd = "down"
    /\ last.err = ""
    /\ last.n = 1
    /\ last.out = <<<<"down", Id1>>>>
    /\ LedgerIds(ledger) = {Id2}
    /\ Len(executed) = 1

----------------------------------------------------------------------------
(* C18. Concurrent up: when two invocations of up run side by side against *)
(* one database and one directory, no id has its up-script effects         *)
(* committed by both, and none has its record inserted by both unless one  *)
(* of the two has failed and rolled back; an invocation at the insertion   *)
(* of an id the other has committed fails; the ledger never holds two      *)
(* records of one id, and its ids are the ids whose effects are committed. *)

Committed(p) == proc[p].pc = "committed"

\* the ids whose scripts with the suffix invocation p has run and committed
CommittedIds(p, suffix) ==
    IF Committed(p) THEN Range(ScriptIds(proc[p].ran, suffix)) ELSE {}

C18_ConcurrentUp ==
    /\ \A id \in UpIdsOf(DefaultDir) :
          Cardinality({p \in Procs : id \in CommittedIds(p, UpSuffix)}) <= 1
    /\ \A p \in Procs : \A q \in Procs \ {p} :
          (proc[p].pc # "failed" /\ proc[q].pc # "failed") =>
              LedgerIds(proc[p].reg) \cap LedgerIds(proc[q].reg) = {}
    /\ \A p \in Procs : \A q \in Procs \ {p} :
          (Committed(q) /\ proc[p].pc = "register") =>
              \/ UpId(proc[p]) \notin LedgerIds(proc[q].reg)
              \/ ~ENABLED (UpRegister(p) /\ proc'[p].pc # "failed")
    /\ \A r \in ledger, q \in ledger : r.id = q.id => r = q
    /\ LedgerIds(ledger) = schema

\* both invocations executed the up-script of 0002_a; the first inserted
\* its record and committed, the second failed at the insertion, and the
\* ledger holds the one record
C18_Witness ==
    /\ Committed(1)
    /\ Id1 \in LedgerIds(proc[1].reg)
    /\ proc[2].pc = "failed"
    /\ proc[2].err = "register"
    /\ UpId(proc[2]) = Id1
    /\ <<DefaultDir, UpFile(Id1)>> \in Range(proc[2].ran)
    /\ Cardinality({r \in ledger : r.id = Id1}) = 1

----------------------------------------------------------------------------
(* C19. Concurrent down: when two invocations of down run side by side     *)
(* against one database, no applied record has its down-script committed   *)
(* by both, and an invocation that has committed has reported only ids     *)
(* whose ledger record its own deletion removed.                           *)

C19_ConcurrentDown ==
    /\ \A id \in Ids :
          Cardinality({p \in Procs : id \in CommittedIds(p, DownSuffix)}) <= 1
    /\ \A p \in Procs :
          (proc[p].cmd = "down" /\ Committed(p)) =>
              \A i \in 1..Len(proc[p].out) : proc[p].out[i][2] \in proc[p].unreg

====
